---- MODULE Spec2Model ----
(***************************************************************************)
(* Model of the abortable combinators `all` and `race` (src/lib/all.js)    *)
(* and of the AbortError helpers (src/es/AbortError.js).                   *)
(*                                                                         *)
(* One outer AbortSignal is shared by the combinator calls, which may      *)
(* overlap: a call can be made while futures of earlier calls are          *)
(* unsettled, and from inside the executor of another call.  A step of the *)
(* model is a piece of one synchronous run of JavaScript: the body of a    *)
(* call to all/race up to the invocation of executor, the rest of that     *)
(* body once executor has returned or thrown, one then-callback of a       *)
(* future, or an abort() of the outer controller (by the environment       *)
(* between two runs, or by an executor that is running).                   *)
(***************************************************************************)
EXTENDS Integers, Sequences, FiniteSets, TLC

\* ------------------------------------------------------------------ bounds
MaxFutures == 3
MaxCalls == 2

\* ------------------------------------------------------------------ values
\* JavaScript values that futures fulfil with.
Values == {1, 2}

\* JavaScript values used as rejection reasons: what typeof yields, whether
\* the value is null, what its `name` property reads, and an identity.
OwnAbortError == [type |-> "object", isNull |-> FALSE, name |-> "AbortError", id |-> 0]
AbortErrorInstance == [type |-> "object", isNull |-> FALSE, name |-> "AbortError", id |-> 1]
ForeignAbortError == [type |-> "object", isNull |-> FALSE, name |-> "AbortError", id |-> 2]
PlainError == [type |-> "object", isNull |-> FALSE, name |-> "Error", id |-> 3]
NullReason == [type |-> "object", isNull |-> TRUE, name |-> "undefined", id |-> 4]
ThrownByExecutor == [type |-> "object", isNull |-> FALSE, name |-> "TypeError", id |-> 5]

Reasons == {AbortErrorInstance, ForeignAbortError, PlainError, NullReason}

\* Variant: only the name is compared, whatever kind of value carries it.
isAbortErrorByNameOnly(error) == error.name = "AbortError"

\* isAbortError(error): typeof error === 'object' && error !== null &&
\* error.name === 'AbortError'
isAbortError(error) ==
    /\ error.type = "object"
    /\ ~error.isNull
    /\ error.name = "AbortError"

\* ------------------------------------------------------------ promise data
Pending == [status |-> "pending"]
Fulfilled(v) == [status |-> "fulfilled", value |-> v]
Rejected(r) == [status |-> "rejected", reason |-> r]

\* `let rejection;` / `let result;` before any assignment
Unset == [status |-> "unset"]
\* an element of `new Array(n)` that was never assigned
Hole == 0

\* resolve/reject of the Promise constructor: only the first call counts.
SettleAggregate(agg, outcome) ==
    IF agg.status = "pending" THEN outcome ELSE agg

\* ------------------------------------------------------------------- state
VARIABLES
    outerAborted,     \* signal.aborted of the outer signal
    listeners,        \* 'abort' listeners registered on the outer signal
    fired,            \* listeners of the outer signal that have been invoked
    callNo,           \* number of combinator calls made so far
    calls,            \* the calls still followed, each with the variables of
                      \* its closure (see NewCall)
    stack,            \* the calls whose executor is running, innermost last
    hArg,             \* helpers: the `error` argument
    hPrev,            \* helpers: what a combinator has recorded so far
    hSignal,          \* helpers: the `signal` argument
    hOut,             \* helpers: outcome of each function applied so far
    rOpts,            \* retry: the options baseMs and maxDelayMs
    rAttempt,         \* retry: number of the current attempt
    rDelays           \* retry: nominal delays computed so far

\* State of the combinator calls made on one outer signal.
cvars == <<outerAborted, listeners, fired, callNo, calls, stack>>

\* Arguments and outcomes of the pure functions.
hvars == <<hArg, hPrev, hSignal, hOut>>

\* State of one retry call.
rvars == <<rOpts, rAttempt, rDelays>>

vars == <<cvars, hvars, rvars>>

\* A listener the application registered on the outer signal itself.
AppListener == 0
\* `abortListener` of the c-th call (c >= 1): each call creates its own closure.
AbortListener(c) == c

\* The closure of a call of combinator k whose executor has just been invoked:
\*   kind          the combinator, "all" or "race"
\*   executor      "notInvoked", "running", "returned" or "threw"
\*   child         innerAbortController.signal: "none", "pending", "aborted"
\*   promises      the futures returned by executor, with their outcome
\*   order         indices of the futures in the order they were observed
\*   results       all: `results`
\*   rejection     all: `rejection`
\*   result        race: `result`
\*   settledCount  `settledCount`
\*   aggregate     the promise returned by the call
\*   settleCalls   calls of resolve/reject made by the call
NewCall(k) ==
    [kind |-> k, executor |-> "running", child |-> "pending",
     promises |-> <<>>, order |-> <<>>, results |-> <<>>,
     rejection |-> Unset, result |-> Unset, settledCount |-> 0,
     aggregate |-> Pending, settleCalls |-> 0]

\* The closure of a call that found the outer signal aborted.
ShortCircuitedCall(k) ==
    [NewCall(k) EXCEPT !.executor = "notInvoked", !.child = "none",
                       !.aggregate = Rejected(OwnAbortError), !.settleCalls = 1]

CombinatorsInit ==
    /\ outerAborted = FALSE
    /\ listeners = {AppListener}
    /\ fired = {}
    /\ callNo = 0
    /\ calls = <<>>
    /\ stack = <<>>

\* ---------------------------------------------------------- code conditions
\* Variant: the aborted-check at the top of the call is skipped.
ShortCircuitsNever(aborted) == FALSE

\* `if (signal.aborted) { reject(new AbortError()); return; }`
ShortCircuits(aborted) == aborted

\* Variant: only the first rejection is ever recorded (no priority rule).
AllTakesFirstRejectionOnly(rej, reason) == rej = Unset

\* all: `rejection == null || (!isAbortError(reason) && isAbortError(rejection.reason))`
AllTakesRejection(rej, reason) ==
    \/ rej = Unset
    \/ (~isAbortError(reason) /\ isAbortError(rej.reason))

\* Variant: a fulfilment also replaces a recorded AbortError rejection.
RaceFulfilmentOverridesAbort(res) ==
    \/ res = Unset
    \/ (res.status = "rejected" /\ isAbortError(res.reason))

\* race: `result == null` in the fulfilment callback
RaceTakesFulfilment(res) == res = Unset

\* Variant: a genuine rejection replaces a recorded AbortError rejection but
\* not a recorded fulfilment.
RaceRejectionKeepsFulfilment(res, reason) ==
    \/ res = Unset
    \/ /\ ~isAbortError(reason)
       /\ res.status = "rejected"
       /\ isAbortError(res.reason)

\* race: `result == null || (!isAbortError(reason) &&
\*        (result.status === 'fulfilled' || isAbortError(result.reason)))`
RaceTakesRejection(res, reason) ==
    \/ res = Unset
    \/ /\ ~isAbortError(reason)
       /\ (res.status = "fulfilled" \/ isAbortError(res.reason))

\* Variant: all settles the aggregate as soon as one future has settled.
AllDoneAtFirst(count, n) == count = n \/ count = 1

\* all: `settledCount === promises.length`
AllDone(count, n) == count = n

\* Variant: race compares the count with the wrong bound and never finds
\* the last settlement.
RaceDonePastLast(count, n) == count > n

\* Variant: race settles the aggregate on the first settlement.
RaceDoneAtFirst(count, n) == count = n \/ count = 1

\* race: `settledCount === promises.length`
RaceDone(count, n) == count = n

\* Variant: abort() of the inner controller has no effect.
AbortNoop(c) == c

\* `innerAbortController.abort()`: the inner signal is aborted from then on,
\* whatever it was before.
Abort(c) == "aborted"

\* Variant: the listener is left on the outer signal.
RemoveListenerNoop(ls, l) == ls

\* `signal.removeEventListener('abort', abortListener)`
RemoveListener(ls, l) == ls \ {l}

\* ------------------------------------------------------------------ actions
\* The calls that still have something to do: the executor is running or a
\* future is unsettled. The others are no longer followed once a new call is
\* made; a listener they left on the outer signal stays in `listeners`.
Unfinished ==
    {c \in DOMAIN calls :
        \/ calls[c].executor = "running"
        \/ calls[c].settledCount < Len(calls[c].promises)}

\* Number of futures of the calls in the set cs.
RECURSIVE FuturesOf(_)
FuturesOf(cs) ==
    IF cs = {} THEN 0
    ELSE LET c == CHOOSE x \in cs : TRUE
         IN  Len(calls[c].promises) + FuturesOf(cs \ {c})

\* abort() of the outer controller, by the environment or by an executor
\* that is running: the signal becomes aborted and every registered listener
\* runs; the listener of a call aborts the inner controller of that call.
OuterAbort ==
    /\ ~outerAborted
    /\ outerAborted' = TRUE
    /\ fired' = listeners
    /\ calls' = [c \in DOMAIN calls |->
                    IF AbortListener(c) \in listeners
                    THEN [calls[c] EXCEPT !.child = Abort(@)]
                    ELSE calls[c]]
    /\ UNCHANGED <<listeners, callNo, stack, hvars, rvars>>

\* Variant of CallEnter: the abort listener is registered before executor is
\* invoked (and so is still there when executor throws).
CallEnterRegisteringFirst(k) ==
    /\ callNo < MaxCalls
    /\ callNo' = callNo + 1
    /\ IF outerAborted
       THEN /\ calls' = [c \in Unfinished \cup {callNo + 1} |->
                            IF c = callNo + 1 THEN ShortCircuitedCall(k) ELSE calls[c]]
            /\ UNCHANGED <<listeners, stack>>
       ELSE /\ calls' = [c \in Unfinished \cup {callNo + 1} |->
                            IF c = callNo + 1 THEN NewCall(k) ELSE calls[c]]
            /\ listeners' = listeners \cup {AbortListener(callNo + 1)}
            /\ stack' = Append(stack, callNo + 1)
    /\ UNCHANGED <<outerAborted, fired, hvars, rvars>>

\* all(signal, executor) / race(signal, executor) up to the invocation of
\* executor: the aborted-check, the inner controller, and then executor runs.
\* The call may be made at any time, also from inside a running executor.
CallEnter(k) ==
    /\ callNo < MaxCalls
    /\ callNo' = callNo + 1
    /\ IF ShortCircuits(outerAborted)
       THEN /\ calls' = [c \in Unfinished \cup {callNo + 1} |->
                            IF c = callNo + 1 THEN ShortCircuitedCall(k) ELSE calls[c]]
            /\ UNCHANGED stack
       ELSE /\ calls' = [c \in Unfinished \cup {callNo + 1} |->
                            IF c = callNo + 1 THEN NewCall(k) ELSE calls[c]]
            /\ stack' = Append(stack, callNo + 1)
    /\ UNCHANGED <<outerAborted, listeners, fired, hvars, rvars>>

AllCall == CallEnter("all")

RaceCall == CallEnter("race")

\* The innermost running executor returns n futures: the call registers its
\* abort listener and attaches the callbacks.
CallReturn(n) ==
    /\ stack /= <<>>
    /\ LET c == stack[Len(stack)] IN
        /\ n + FuturesOf(DOMAIN calls \ {c}) <= MaxFutures
        /\ calls' = [calls EXCEPT ![c] =
                        [@ EXCEPT !.executor = "returned",
                                  !.promises = [i \in 1..n |-> Pending],
                                  !.results = [i \in 1..n |-> Hole]]]
        /\ listeners' = listeners \cup {AbortListener(c)}
    /\ stack' = SubSeq(stack, 1, Len(stack) - 1)
    /\ UNCHANGED <<outerAborted, fired, callNo, hvars, rvars>>

\* The innermost running executor throws: the Promise constructor rejects the
\* aggregate with the thrown error and nothing else of the call body runs.
CallThrow ==
    /\ stack /= <<>>
    /\ LET c == stack[Len(stack)] IN
        calls' = [calls EXCEPT ![c] =
                     [@ EXCEPT !.executor = "threw",
                               !.aggregate = SettleAggregate(@, Rejected(ThrownByExecutor)),
                               !.settleCalls = @ + 1]]
    /\ stack' = SubSeq(stack, 1, Len(stack) - 1)
    /\ UNCHANGED <<outerAborted, listeners, fired, callNo, hvars, rvars>>

\* A callback of future i of call c can run: no executor is running (a
\* callback is a job of its own) and the future has not been observed yet.
CallbackReady(c, k, i) ==
    /\ stack = <<>>
    /\ c \in DOMAIN calls
    /\ calls[c].kind = k
    /\ i \in 1..Len(calls[c].promises)
    /\ calls[c].promises[i] = Pending

\* Variant of AllFulfil: the fulfilment callback aborts the inner controller
\* as the callbacks of race do.
AllFulfilAborting(c, i, v) ==
    /\ CallbackReady(c, "all", i)
    /\ LET call == calls[c]
           done == call.settledCount + 1 = Len(call.promises)
           res == [call.results EXCEPT ![i] = v]
       IN  /\ calls' = [calls EXCEPT ![c] =
                [call EXCEPT !.promises[i] = Fulfilled(v),
                             !.order = Append(@, i),
                             !.results = res,
                             !.child = "aborted",
                             !.settledCount = @ + 1,
                             !.aggregate =
                                 IF done
                                 THEN SettleAggregate(@,
                                          IF call.rejection /= Unset
                                          THEN Rejected(call.rejection.reason)
                                          ELSE Fulfilled(res))
                                 ELSE @,
                             !.settleCalls = IF done THEN @ + 1 ELSE @]]
           /\ listeners' = IF done THEN listeners \ {AbortListener(c)} ELSE listeners
    /\ UNCHANGED <<outerAborted, fired, callNo, stack, hvars, rvars>>

\* all: the fulfilment callback of future i of call c, including settled().
AllFulfil(c, i, v) ==
    /\ CallbackReady(c, "all", i)
    /\ LET call == calls[c]
           done == AllDone(call.settledCount + 1, Len(call.promises))
           res == [call.results EXCEPT ![i] = v]
       IN  /\ calls' = [calls EXCEPT ![c] =
                [call EXCEPT !.promises[i] = Fulfilled(v),
                             !.order = Append(@, i),
                             !.results = res,
                             !.settledCount = @ + 1,
                             !.aggregate =
                                 IF done
                                 THEN SettleAggregate(@,
                                          IF call.rejection /= Unset
                                          THEN Rejected(call.rejection.reason)
                                          ELSE Fulfilled(res))
                                 ELSE @,
                             !.settleCalls = IF done THEN @ + 1 ELSE @]]
           /\ listeners' = IF done THEN RemoveListener(listeners, AbortListener(c))
                                   ELSE listeners
    /\ UNCHANGED <<outerAborted, fired, callNo, stack, hvars, rvars>>

\* Variant of AllReject: aborting the inner controller also aborts the outer
\* one (a cascade from child to parent) and runs the outer listeners.
AllRejectAbortingOuter(c, i, reason) ==
    /\ CallbackReady(c, "all", i)
    /\ LET call == calls[c]
           done == call.settledCount + 1 = Len(call.promises)
           rej == IF \/ call.rejection = Unset
                     \/ (~isAbortError(reason) /\ isAbortError(call.rejection.reason))
                  THEN [status |-> "set", reason |-> reason]
                  ELSE call.rejection
       IN  /\ calls' = [calls EXCEPT ![c] =
                [call EXCEPT !.promises[i] = Rejected(reason),
                             !.order = Append(@, i),
                             !.child = "aborted",
                             !.rejection = rej,
                             !.settledCount = @ + 1,
                             !.aggregate =
                                 IF done THEN SettleAggregate(@, Rejected(rej.reason))
                                 ELSE @,
                             !.settleCalls = IF done THEN @ + 1 ELSE @]]
           /\ listeners' = IF done THEN listeners \ {AbortListener(c)} ELSE listeners
    /\ outerAborted' = TRUE
    /\ fired' = IF outerAborted THEN fired ELSE listeners
    /\ UNCHANGED <<callNo, stack, hvars, rvars>>

\* all: the rejection callback of future i of call c, including settled().
AllReject(c, i, reason) ==
    /\ CallbackReady(c, "all", i)
    /\ LET call == calls[c]
           done == AllDone(call.settledCount + 1, Len(call.promises))
           rej == IF AllTakesRejection(call.rejection, reason)
                  THEN [status |-> "set", reason |-> reason]
                  ELSE call.rejection
       IN  /\ calls' = [calls EXCEPT ![c] =
                [call EXCEPT !.promises[i] = Rejected(reason),
                             !.order = Append(@, i),
                             !.child = Abort(@),
                             !.rejection = rej,
                             !.settledCount = @ + 1,
                             !.aggregate =
                                 IF done
                                 THEN SettleAggregate(@,
                                          IF rej /= Unset
                                          THEN Rejected(rej.reason)
                                          ELSE Fulfilled(call.results))
                                 ELSE @,
                             !.settleCalls = IF done THEN @ + 1 ELSE @]]
           /\ listeners' = IF done THEN RemoveListener(listeners, AbortListener(c))
                                   ELSE listeners
    /\ UNCHANGED <<outerAborted, fired, callNo, stack, hvars, rvars>>

\* race: settled(result) of call c, called at the end of both callbacks, after
\* future i was observed to settle as outcome and `result` became res.
RaceSettled(c, i, outcome, res) ==
    LET call == calls[c]
        done == RaceDone(call.settledCount + 1, Len(call.promises))
    IN  /\ calls' = [calls EXCEPT ![c] =
             [call EXCEPT !.promises[i] = outcome,
                          !.order = Append(@, i),
                          !.result = res,
                          !.child = Abort(@),
                          !.settledCount = @ + 1,
                          !.aggregate =
                              IF done
                              THEN SettleAggregate(@,
                                       IF res.status = "fulfilled"
                                       THEN Fulfilled(res.value)
                                       ELSE Rejected(res.reason))
                              ELSE @,
                          !.settleCalls = IF done THEN @ + 1 ELSE @]]
        /\ listeners' = IF done THEN RemoveListener(listeners, AbortListener(c))
                                ELSE listeners

\* race: the fulfilment callback of future i of call c.
RaceFulfil(c, i, v) ==
    /\ CallbackReady(c, "race", i)
    /\ RaceSettled(c, i, Fulfilled(v),
                   IF RaceTakesFulfilment(calls[c].result) THEN Fulfilled(v)
                                                           ELSE calls[c].result)
    /\ UNCHANGED <<outerAborted, fired, callNo, stack, hvars, rvars>>

\* race: the rejection callback of future i of call c.
RaceReject(c, i, reason) ==
    /\ CallbackReady(c, "race", i)
    /\ RaceSettled(c, i, Rejected(reason),
                   IF RaceTakesRejection(calls[c].result, reason) THEN Rejected(reason)
                                                                  ELSE calls[c].result)
    /\ UNCHANGED <<outerAborted, fired, callNo, stack, hvars, rvars>>

\* ------------------------------------------------------- AbortError helpers
\* Further JavaScript values an `error` argument can be.
Undefined == [type |-> "undefined", isNull |-> FALSE, name |-> "undefined", id |-> 6]
StringAbortError == [type |-> "string", isNull |-> FALSE, name |-> "undefined", id |-> 7]
AbortErrorClass == [type |-> "function", isNull |-> FALSE, name |-> "AbortError", id |-> 8]
NumberValue == [type |-> "number", isNull |-> FALSE, name |-> "undefined", id |-> 9]
LowercaseNamed == [type |-> "object", isNull |-> FALSE, name |-> "aborterror", id |-> 10]
NamelessObject == [type |-> "object", isNull |-> FALSE, name |-> "undefined", id |-> 11]

JsValues ==
    Reasons \cup {OwnAbortError, ThrownByExecutor, Undefined, StringAbortError,
                  AbortErrorClass, NumberValue, LowercaseNamed, NamelessObject}

\* How a function call ends.
NotCalled == [kind |-> "notCalled"]
Returned(v) == [kind |-> "returned", result |-> v]
Threw(e) == [kind |-> "threw", error |-> e]

\* throwIfAborted(signal): `if (signal.aborted) { throw new AbortError(); }`
throwIfAborted(signal) ==
    IF signal.aborted THEN Threw(OwnAbortError) ELSE Returned(Undefined)

\* rethrowAbortError(error): `if (isAbortError(error)) { throw error; } return;`
rethrowAbortError(error) ==
    IF isAbortError(error) THEN Threw(error) ELSE Returned(Undefined)

\* Variant: catchAbortError swallows every error.
catchAbortErrorSwallowsAll(error) == Returned(Undefined)

\* catchAbortError(error): `if (isAbortError(error)) { return; } throw error;`
catchAbortError(error) ==
    IF isAbortError(error) THEN Returned(Undefined) ELSE Threw(error)

HelperNames ==
    {"isAbortError", "throwIfAborted", "rethrowAbortError", "catchAbortError",
     "allTakesRejection", "raceTakesRejection"}

\* No helper is being exercised.
HelpersIdle ==
    /\ hArg = Undefined
    /\ hPrev = Unset
    /\ hSignal = [aborted |-> FALSE]
    /\ hOut = [f \in HelperNames |-> NotCalled]

\* Arguments of the helpers: any value as `error`, a pending or aborted
\* signal, and anything a combinator can have recorded before `error` arrives.
HelpersInit ==
    /\ hArg \in JsValues
    /\ hPrev \in {Unset, Fulfilled(1)} \cup {Rejected(e) : e \in JsValues}
    /\ hSignal \in {[aborted |-> FALSE], [aborted |-> TRUE]}
    /\ hOut = [f \in HelperNames |-> NotCalled]

\* The function f is applied to the arguments and ends with outcome out.
Apply(f, out) ==
    /\ hOut[f] = NotCalled
    /\ hOut' = [hOut EXCEPT ![f] = out]
    /\ UNCHANGED <<hArg, hPrev, hSignal, cvars, rvars>>

ApplyIsAbortError == Apply("isAbortError", Returned(isAbortError(hArg)))
ApplyThrowIfAborted == Apply("throwIfAborted", throwIfAborted(hSignal))
ApplyRethrowAbortError == Apply("rethrowAbortError", rethrowAbortError(hArg))
ApplyCatchAbortError == Apply("catchAbortError", catchAbortError(hArg))

\* The rejection callback of all decides whether `error` replaces `rejection`.
ApplyAllTakesRejection ==
    /\ hPrev.status /= "fulfilled"
    /\ Apply("allTakesRejection", Returned(AllTakesRejection(hPrev, hArg)))

\* The rejection callback of race decides whether `error` replaces `result`.
ApplyRaceTakesRejection ==
    Apply("raceTakesRejection", Returned(RaceTakesRejection(hPrev, hArg)))

HelpersNext ==
    \/ ApplyIsAbortError
    \/ ApplyThrowIfAborted
    \/ ApplyRethrowAbortError
    \/ ApplyCatchAbortError
    \/ ApplyAllTakesRejection
    \/ ApplyRaceTakesRejection

\* -------------------------------------------------------------------- retry
MaxRetryAttempts == 5

DefaultBaseMs == 1000
DefaultMaxDelayMs == 15000

BaseMsChoices == {1, 100, DefaultBaseMs, 4000, 20000}
MaxDelayMsChoices == {1, 300, 3000, DefaultMaxDelayMs}

Min(a, b) == IF a <= b THEN a ELSE b

\* Variant: the exponent is the attempt number itself.
NominalDelayDoubledEarly(attempt, baseMs, maxDelayMs) ==
    Min(baseMs * 2 ^ attempt, maxDelayMs)

\* The delay before the retry that follows failed attempt `attempt`, jitter
\* not counted: min(baseMs * 2^(attempt-1), maxDelayMs).
NominalDelay(attempt, baseMs, maxDelayMs) ==
    Min(baseMs * 2 ^ (attempt - 1), maxDelayMs)

\* No retry call is being made.
RetryIdle ==
    /\ rOpts = [baseMs |-> DefaultBaseMs, maxDelayMs |-> DefaultMaxDelayMs]
    /\ rAttempt = 1
    /\ rDelays = <<>>

\* retry is called with some options; the first attempt is attempt 1.
RetryInit ==
    /\ rOpts \in [baseMs : BaseMsChoices, maxDelayMs : MaxDelayMsChoices]
    /\ rAttempt = 1
    /\ rDelays = <<>>

\* The current attempt fails with a genuine error: the delay before the next
\* attempt is computed and the attempt number grows by one.
AttemptFails ==
    /\ rAttempt <= MaxRetryAttempts
    /\ rDelays' = Append(rDelays, NominalDelay(rAttempt, rOpts.baseMs, rOpts.maxDelayMs))
    /\ rAttempt' = rAttempt + 1
    /\ UNCHANGED <<rOpts, cvars, hvars>>

\* ----------------------------------------------------------- specifications
Init == CombinatorsInit /\ HelpersIdle /\ RetryIdle

Next ==
    \/ OuterAbort
    \/ AllCall
    \/ RaceCall
    \/ \E n \in 0..MaxFutures : CallReturn(n)
    \/ CallThrow
    \/ \E c \in 1..MaxCalls, i \in 1..MaxFutures, v \in Values : AllFulfil(c, i, v)
    \/ \E c \in 1..MaxCalls, i \in 1..MaxFutures, r \in Reasons : AllReject(c, i, r)
    \/ \E c \in 1..MaxCalls, i \in 1..MaxFutures, v \in Values : RaceFulfil(c, i, v)
    \/ \E c \in 1..MaxCalls, i \in 1..MaxFutures, r \in Reasons : RaceReject(c, i, r)

Spec == Init /\ [][Next]_vars

\* A callback of some future of some call runs.
Settle ==
    \/ \E c \in 1..MaxCalls, i \in 1..MaxFutures, v \in Values :
           AllFulfil(c, i, v) \/ RaceFulfil(c, i, v)
    \/ \E c \in 1..MaxCalls, i \in 1..MaxFutures, r \in Reasons :
           AllReject(c, i, r) \/ RaceReject(c, i, r)

\* A running executor ends, by returning its futures or by throwing.
ExecutorEnds == CallThrow \/ \E n \in 0..MaxFutures : CallReturn(n)

\* The behaviours in which every future eventually settles: an executor is
\* synchronous code that ends, futures settle by themselves and the event loop
\* runs the callback of a settled future.
FairSpec == Spec /\ WF_vars(Settle) /\ WF_vars(ExecutorEnds)

\* The helpers of AbortError.js and the priority conditions of the
\* combinators, applied to arbitrary arguments.
HelpersStart == CombinatorsInit /\ HelpersInit /\ RetryIdle

HelpersSpec == HelpersStart /\ [][HelpersNext]_vars

\* The delays of one retry call whose attempts keep failing.
RetryStart == CombinatorsInit /\ HelpersIdle /\ RetryInit

RetrySpec == RetryStart /\ [][AttemptFails]_vars

\* ------------------------------------------------- observations of a call
\* Number of futures of call c.
N(c) == Len(calls[c].promises)

\* Call c is a call of combinator k that got its futures from executor.
Started(c, k) == calls[c].kind = k /\ calls[c].executor = "returned"

\* Call c is a call of all or race that got its futures from executor.
Attached(c) == calls[c].executor = "returned"

\* Every future of call c has been observed to settle.
Drained(c) == N(c) > 0 /\ calls[c].settledCount = N(c)

IsGenuineRejection(c, i) ==
    calls[c].promises[i].status = "rejected" /\ ~isAbortError(calls[c].promises[i].reason)

IsAbortRejection(c, i) ==
    calls[c].promises[i].status = "rejected" /\ isAbortError(calls[c].promises[i].reason)

IsFulfilment(c, i) == calls[c].promises[i].status = "fulfilled"

\* Indices of the futures of call c, in the order their settlement was observed.
GenuineSeq(c) ==
    LET Test(i) == IsGenuineRejection(c, i) IN SelectSeq(calls[c].order, Test)

AbortSeq(c) ==
    LET Test(i) == IsAbortRejection(c, i) IN SelectSeq(calls[c].order, Test)

FulfilSeq(c) ==
    LET Test(i) == IsFulfilment(c, i) IN SelectSeq(calls[c].order, Test)

RejectedWithAbortError(p) == p.status = "rejected" /\ isAbortError(p.reason)

\* The calls followed both before and after a step.
Continuing == DOMAIN calls \cap DOMAIN calls'

\* ------------------------------------------------------------------ claims

\* C1: all records the first genuine rejection observed, or, when only
\* AbortError rejections were observed, the first of those; a recorded genuine
\* reason is never replaced, and the aggregate rejects with the recorded
\* reason once every future has settled.
C1_AllRejectionPriority ==
    \A c \in DOMAIN calls :
        Started(c, "all") =>
            LET call == calls[c] IN
            /\ GenuineSeq(c) /= <<>> =>
                   call.rejection =
                       [status |-> "set", reason |-> call.promises[Head(GenuineSeq(c))].reason]
            /\ (GenuineSeq(c) = <<>> /\ AbortSeq(c) /= <<>>) =>
                   call.rejection =
                       [status |-> "set", reason |-> call.promises[Head(AbortSeq(c))].reason]
            /\ (Drained(c) /\ GenuineSeq(c) /= <<>>) =>
                   call.aggregate = Rejected(call.promises[Head(GenuineSeq(c))].reason)
            /\ (Drained(c) /\ GenuineSeq(c) = <<>> /\ AbortSeq(c) /= <<>>) =>
                   call.aggregate = Rejected(call.promises[Head(AbortSeq(c))].reason)

\* Three futures: an AbortError rejection is observed first, then a genuine
\* one, then a different rejection; the aggregate rejected with the genuine one.
C1_Witness ==
    \E c \in DOMAIN calls :
        LET call == calls[c] IN
        /\ Started(c, "all") /\ N(c) = 3 /\ Drained(c)
        /\ IsAbortRejection(c, call.order[1])
        /\ IsGenuineRejection(c, call.order[2])
        /\ call.promises[call.order[3]].status = "rejected"
        /\ call.promises[call.order[3]].reason /= call.promises[call.order[2]].reason
        /\ call.aggregate = Rejected(call.promises[call.order[2]].reason)

\* C2: race records the first genuine rejection observed, whatever was
\* recorded before it, and the aggregate never fulfils once a future rejected
\* genuinely: it rejects with that first genuine reason.
C2_RaceGenuineWins ==
    \A c \in DOMAIN calls :
        (Started(c, "race") /\ GenuineSeq(c) /= <<>>) =>
            LET call == calls[c]
                first == call.promises[Head(GenuineSeq(c))].reason
            IN  /\ call.result = Rejected(first)
                /\ call.aggregate.status /= "fulfilled"
                /\ Drained(c) => call.aggregate = Rejected(first)

\* A fulfilment was observed first, a genuine rejection later; the aggregate
\* rejected with the genuine reason.
C2_Witness ==
    \E c \in DOMAIN calls :
        /\ Started(c, "race") /\ N(c) >= 2 /\ Drained(c)
        /\ IsFulfilment(c, calls[c].order[1])
        /\ GenuineSeq(c) /= <<>>
        /\ calls[c].aggregate = Rejected(calls[c].promises[Head(GenuineSeq(c))].reason)

\* C3 as stated: without a genuine rejection, race fulfils with the first
\* fulfilment whenever some future fulfilled, and rejects with an AbortError
\* only when every future rejected with AbortError.
C3_Original ==
    \A c \in DOMAIN calls :
        (Started(c, "race") /\ Drained(c)) =>
            /\ (GenuineSeq(c) = <<>> /\ FulfilSeq(c) /= <<>>) =>
                   calls[c].aggregate = Fulfilled(calls[c].promises[Head(FulfilSeq(c))].value)
            /\ RejectedWithAbortError(calls[c].aggregate) =>
                   \A i \in 1..N(c) : IsAbortRejection(c, i)

\* C3 as amended: without a genuine rejection, race settles the aggregate
\* with the first settlement observed: the value of the first fulfilment when
\* that came first, the first AbortError when an AbortError rejection came
\* first (also when a sibling fulfilled later). The aggregate rejects with an
\* AbortError only when no future rejected genuinely and the first settlement
\* observed was an AbortError rejection.
C3_RaceFirstSettlementWins ==
    \A c \in DOMAIN calls :
        (Started(c, "race") /\ Drained(c)) =>
            /\ GenuineSeq(c) = <<>> =>
                   calls[c].aggregate = calls[c].promises[calls[c].order[1]]
            /\ RejectedWithAbortError(calls[c].aggregate) =>
                   (GenuineSeq(c) = <<>> /\ IsAbortRejection(c, calls[c].order[1]))

\* An AbortError rejection was observed before a fulfilment, nothing rejected
\* genuinely, and the aggregate rejected with that AbortError.
C3_Witness ==
    \E c \in DOMAIN calls :
        /\ Started(c, "race") /\ Drained(c)
        /\ GenuineSeq(c) = <<>> /\ FulfilSeq(c) /= <<>>
        /\ IsAbortRejection(c, calls[c].order[1])
        /\ calls[c].aggregate = Rejected(calls[c].promises[calls[c].order[1]].reason)

\* C4: all with an executor that returned an empty sequence has fulfilled
\* with an empty sequence.
C4_AllEmptyFulfils ==
    \A c \in DOMAIN calls :
        (Started(c, "all") /\ N(c) = 0) => calls[c].aggregate = Fulfilled(<<>>)

\* C5: all never settles the aggregate while a future is unsettled.
C5_AllWaitsForAll ==
    \A c \in DOMAIN calls :
        (Started(c, "all") /\ \E i \in 1..N(c) : calls[c].promises[i] = Pending) =>
            calls[c].aggregate = Pending

\* One future has rejected, a sibling is still unsettled.
C5_Witness ==
    \E c \in DOMAIN calls :
        /\ Started(c, "all") /\ N(c) >= 2
        /\ calls[c].rejection /= Unset
        /\ \E i \in 1..N(c) : calls[c].promises[i] = Pending
        /\ calls[c].aggregate = Pending

\* C6: race settles the aggregate only at the step where the last future
\* settles, never at an earlier settlement.
C6_RaceWaitsForAll ==
    [][\A c \in Continuing :
          (Started(c, "race") /\ calls'[c].aggregate /= calls[c].aggregate)
              => /\ calls[c].aggregate = Pending
                 /\ N(c) > 0
                 /\ calls[c].settledCount = N(c) - 1
                 /\ calls'[c].settledCount = N(c)
                 /\ \A i \in 1..N(c) : calls'[c].promises[i] /= Pending]_vars

\* A future of race has fulfilled, a sibling is still unsettled and the
\* aggregate is pending.
C6_Witness ==
    \E c \in DOMAIN calls :
        /\ Started(c, "race") /\ N(c) >= 2
        /\ calls[c].settledCount >= 1 /\ calls[c].settledCount < N(c)
        /\ calls[c].result.status = "fulfilled"
        /\ calls[c].aggregate = Pending

\* C7: a call made while the outer signal is aborted rejects with an
\* AbortError, does not invoke executor, creates no inner controller and
\* registers no listener on the outer signal.
C7_AbortedAtCall ==
    [][(callNo' = callNo + 1 /\ outerAborted)
        => /\ RejectedWithAbortError(calls'[callNo'].aggregate)
           /\ calls'[callNo'].executor = "notInvoked"
           /\ calls'[callNo'].child = "none"
           /\ calls'[callNo'].promises = <<>>
           /\ stack' = stack
           /\ listeners' = listeners]_vars

\* A call was made on an aborted signal.
C7_Witness ==
    \E c \in DOMAIN calls :
        /\ outerAborted
        /\ calls[c].executor = "notInvoked"
        /\ calls[c].aggregate = Rejected(OwnAbortError)
        /\ AbortListener(c) \notin listeners

\* C8: when the outer signal is aborted after the aborted-check of a call
\* (also while executor runs) and before any future settles, the inner signal
\* is aborted; and when every future rejected with AbortError the aggregate
\* rejects with an AbortError.
C8_AbortCascades ==
    \A c \in DOMAIN calls :
        Attached(c) =>
            /\ (outerAborted /\ N(c) > 0 /\ calls[c].settledCount = 0) =>
                   calls[c].child = "aborted"
            /\ (Drained(c) /\ \A i \in 1..N(c) : IsAbortRejection(c, i)) =>
                   RejectedWithAbortError(calls[c].aggregate)

\* C9: all fulfils exactly when every future fulfilled, with a sequence of
\* the same length holding at index i the value of future i.
C9_AllFulfilsInOrder ==
    \A c \in DOMAIN calls :
        Started(c, "all") =>
            /\ calls[c].aggregate.status = "fulfilled" <=>
                   \A i \in 1..N(c) : IsFulfilment(c, i)
            /\ calls[c].aggregate.status = "fulfilled" =>
                   /\ Len(calls[c].aggregate.value) = N(c)
                   /\ \A i \in 1..N(c) :
                          calls[c].aggregate.value[i] = calls[c].promises[i].value

\* C10: once the futures of a call have settled, its abort listener is gone
\* from the outer signal, which then holds the listeners of the application
\* and those of the calls that have futures unsettled, and no other.
C10_ListenerRemoved ==
    \A c \in DOMAIN calls :
        (Attached(c) /\ calls[c].settledCount = N(c)) =>
            /\ AbortListener(c) \notin listeners
            /\ listeners =
                   {AppListener} \cup
                       {AbortListener(d) : d \in {e \in Unfinished : Attached(e)}}

\* C11: race aborts the inner signal in the step that handles the first
\* settlement of any future, fulfilment or rejection, and the inner signal
\* stays aborted for the rest of the call.
C11_RaceAbortsChildAtFirstSettlement ==
    [][\A c \in Continuing :
          calls[c].kind = "race"
              => /\ calls'[c].settledCount > calls[c].settledCount =>
                        calls'[c].child = "aborted"
                 /\ calls[c].child = "aborted" => calls'[c].child = "aborted"]_vars

\* The first settlement of a race call was a fulfilment, the outer signal is
\* not aborted, a sibling is unsettled and the inner signal is aborted.
C11_Witness ==
    \E c \in DOMAIN calls :
        /\ Started(c, "race") /\ N(c) >= 2 /\ calls[c].settledCount = 1
        /\ IsFulfilment(c, calls[c].order[1])
        /\ ~outerAborted
        /\ calls[c].child = "aborted"

\* C12: all aborts the inner signal in the step that handles the first
\* rejection, before the aggregate settles; while the outer signal is not
\* aborted and no future has rejected, the inner signal is pending.
C12_AllAbortsChildOnRejectionOnly ==
    \A c \in DOMAIN calls :
        Started(c, "all") =>
            /\ (\E i \in 1..N(c) : calls[c].promises[i].status = "rejected") =>
                   calls[c].child = "aborted"
            /\ (~outerAborted /\ \A i \in 1..N(c) : calls[c].promises[i].status /= "rejected") =>
                   calls[c].child = "pending"

\* A future of all has fulfilled, none has rejected, the outer signal is not
\* aborted and the inner signal is pending.
C12_Witness ==
    \E c \in DOMAIN calls :
        /\ Started(c, "all") /\ N(c) >= 2
        /\ FulfilSeq(c) /= <<>>
        /\ \A i \in 1..N(c) : calls[c].promises[i].status /= "rejected"
        /\ ~outerAborted
        /\ calls[c].child = "pending"

\* C13: a step of a combinator call (the call itself, the end of its
\* executor, a callback, which may abort the inner signal) leaves the outer
\* signal's aborted state as it was and invokes none of the listeners
\* registered on the outer signal.
C13_NoUpwardCascade ==
    [][(\/ callNo' /= callNo
        \/ stack' /= stack
        \/ \E c \in Continuing : calls'[c].settledCount /= calls[c].settledCount)
        => (outerAborted' = outerAborted /\ fired' = fired)]_vars

\* The inner signal of a call was aborted by a callback while the outer signal
\* is pending, none of its listeners has run and the inner signal of another
\* unfinished call is pending.
C13_Witness ==
    \E c \in DOMAIN calls :
        /\ Attached(c)
        /\ calls[c].settledCount >= 1
        /\ calls[c].child = "aborted"
        /\ ~outerAborted
        /\ fired = {}
        /\ \E d \in Unfinished : d /= c /\ Attached(d) /\ calls[d].child = "pending"

\* C14: the promise returned by race is settled as soon as any future has
\* settled, and a race call that saw the outer signal abort rejects with an
\* AbortError.
C14_RaceSettlesOnFirst ==
    \A c \in DOMAIN calls :
        Started(c, "race") =>
            /\ calls[c].settledCount >= 1 => calls[c].aggregate /= Pending
            /\ (Drained(c) /\ AbortListener(c) \in fired) =>
                   RejectedWithAbortError(calls[c].aggregate)

\* In a call with at least one future the count of settled futures never
\* exceeds their number, and resolve/reject has been called exactly once when
\* the count has reached that number and not at all before.
SettledExactlyAtLast ==
    \A c \in DOMAIN calls :
        (Attached(c) /\ N(c) > 0) =>
            /\ calls[c].settledCount <= N(c)
            /\ calls[c].settledCount = Len(calls[c].order)
            /\ calls[c].settledCount < N(c) =>
                   (calls[c].aggregate = Pending /\ calls[c].settleCalls = 0)
            /\ calls[c].settledCount = N(c) =>
                   (calls[c].aggregate /= Pending /\ calls[c].settleCalls = 1)

\* Call c has futures and its aggregate is pending.
AwaitsSettlement(c) ==
    /\ c \in DOMAIN calls
    /\ Attached(c)
    /\ N(c) > 0
    /\ calls[c].aggregate = Pending

\* C18: in a call with at least one future whose futures all settle, the
\* aggregate eventually settles; it settles exactly once, in the step where
\* the count of settled futures reaches the number of futures, and that count
\* never exceeds the number of futures.
C18_SettlesOnceAtLast ==
    /\ []SettledExactlyAtLast
    /\ \A c \in 1..MaxCalls : AwaitsSettlement(c) ~> ~AwaitsSettlement(c)

\* Every future of a call with several futures has settled and the aggregate
\* was settled by a single call of resolve/reject.
C18_Witness ==
    \E c \in DOMAIN calls :
        /\ Attached(c)
        /\ N(c) >= 2 /\ calls[c].settledCount = N(c)
        /\ calls[c].aggregate /= Pending
        /\ calls[c].settleCalls = 1

\* C19: a call whose executor throws rejects with the thrown error, has
\* registered no abort listener, and the step leaves the listener set of the
\* outer signal as it was.
C19_ExecutorThrows ==
    [][\A c \in Continuing :
          (calls[c].executor = "running" /\ calls'[c].executor = "threw")
              => /\ calls'[c].aggregate = Rejected(ThrownByExecutor)
                 /\ listeners' = listeners
                 /\ AbortListener(c) \notin listeners']_vars

\* The executor of a call threw.
C19_Witness ==
    \E c \in DOMAIN calls :
        /\ calls[c].executor = "threw"
        /\ calls[c].aggregate = Rejected(ThrownByExecutor)
        /\ AbortListener(c) \notin listeners

\* C20: once the aggregate of an all call has settled, no later step changes
\* the call's inner signal; when every future fulfilled and the call's
\* listener never ran, the inner signal is pending, also after the outer
\* signal is aborted.
C20_NoCascadeAfterSettled ==
    [][\A c \in Continuing :
          (calls[c].kind = "all" /\ calls[c].aggregate /= Pending)
              => /\ calls'[c].child = calls[c].child
                 /\ (calls[c].aggregate.status = "fulfilled" /\ AbortListener(c) \notin fired)
                        => calls'[c].child = "pending"]_vars

\* Every future of an all call fulfilled, the outer signal is aborted and the
\* inner signal is still pending.
C20_Witness ==
    \E c \in DOMAIN calls :
        /\ Started(c, "all") /\ Drained(c)
        /\ calls[c].aggregate.status = "fulfilled"
        /\ outerAborted
        /\ calls[c].child = "pending"

\* The values that are non-null objects whose name reads 'AbortError':
\* AbortError instances and foreign objects with that name alike.
TaggedAbort ==
    {e \in JsValues : e.type = "object" /\ ~e.isNull /\ e.name = "AbortError"}

\* C15: isAbortError returns true exactly for the non-null objects named
\* 'AbortError' and false for every other value, and the rejection callbacks
\* of all and race replace what they recorded according to that classification.
C15_ClassifiesByTag ==
    /\ hOut["isAbortError"] /= NotCalled =>
           hOut["isAbortError"] = Returned(hArg \in TaggedAbort)
    /\ hOut["allTakesRejection"] /= NotCalled =>
           hOut["allTakesRejection"] =
               Returned(\/ hPrev = Unset
                        \/ (hArg \notin TaggedAbort /\ hPrev.reason \in TaggedAbort))
    /\ hOut["raceTakesRejection"] /= NotCalled =>
           hOut["raceTakesRejection"] =
               Returned(\/ hPrev = Unset
                        \/ /\ hArg \notin TaggedAbort
                           /\ (hPrev.status = "fulfilled" \/ hPrev.reason \in TaggedAbort))

\* The class AbortError itself (a function named 'AbortError') arrives after a
\* foreign object named 'AbortError' was recorded: it is not classified as an
\* AbortError and replaces the recorded reason in all and in race.
C15_Witness ==
    /\ hArg = AbortErrorClass
    /\ hPrev = Rejected(ForeignAbortError)
    /\ hOut["isAbortError"] = Returned(FALSE)
    /\ hOut["allTakesRejection"] = Returned(TRUE)
    /\ hOut["raceTakesRejection"] = Returned(TRUE)

\* C16: throwIfAborted throws an AbortError exactly when the signal is aborted
\* and returns otherwise; of rethrowAbortError and catchAbortError exactly one
\* throws, it throws the error it was given, and the other returns normally.
C16_ThrowHelpers ==
    /\ hOut["throwIfAborted"] /= NotCalled =>
           /\ hOut["throwIfAborted"].kind = "threw" <=> hSignal.aborted
           /\ hOut["throwIfAborted"].kind = "threw" =>
                  hOut["throwIfAborted"].error \in TaggedAbort
           /\ hOut["throwIfAborted"].kind /= "threw" =>
                  hOut["throwIfAborted"] = Returned(Undefined)
    /\ (hOut["rethrowAbortError"] /= NotCalled /\ hOut["catchAbortError"] /= NotCalled) =>
           \/ /\ hOut["rethrowAbortError"] = Threw(hArg)
              /\ hOut["catchAbortError"] = Returned(Undefined)
           \/ /\ hOut["rethrowAbortError"] = Returned(Undefined)
              /\ hOut["catchAbortError"] = Threw(hArg)

\* On an aborted signal throwIfAborted threw; given a genuine error,
\* catchAbortError threw it and rethrowAbortError returned.
C16_Witness ==
    /\ hSignal.aborted
    /\ hOut["throwIfAborted"] = Threw(OwnAbortError)
    /\ hArg = PlainError
    /\ hOut["catchAbortError"] = Threw(PlainError)
    /\ hOut["rethrowAbortError"] = Returned(Undefined)

\* C17: the nominal delay after failed attempt k is
\* min(baseMs * 2^(k-1), maxDelayMs); the delays never decrease, never exceed
\* maxDelayMs, all equal maxDelayMs when baseMs > maxDelayMs, and are
\* 1000, 2000, 3000, 3000, ... for baseMs = 1000 and maxDelayMs = 3000.
C17_NominalDelays ==
    /\ \A k \in 1..Len(rDelays) :
           /\ rDelays[k] = Min(rOpts.baseMs * 2 ^ (k - 1), rOpts.maxDelayMs)
           /\ rDelays[k] <= rOpts.maxDelayMs
           /\ rOpts.baseMs > rOpts.maxDelayMs => rDelays[k] = rOpts.maxDelayMs
           /\ (rOpts.baseMs = 1000 /\ rOpts.maxDelayMs = 3000) =>
                  rDelays[k] = (IF k = 1 THEN 1000 ELSE IF k = 2 THEN 2000 ELSE 3000)
           /\ (rOpts.baseMs = 100 /\ rOpts.maxDelayMs = 300) =>
                  rDelays[k] = (IF k = 1 THEN 100 ELSE IF k = 2 THEN 200 ELSE 300)
    /\ \A k \in 1..(Len(rDelays) - 1) : rDelays[k] <= rDelays[k + 1]

\* With baseMs = 1000 and maxDelayMs = 3000 four attempts have failed and the
\* delays were 1000, 2000, 3000, 3000.
C17_Witness ==
    /\ rOpts = [baseMs |-> 1000, maxDelayMs |-> 3000]
    /\ Len(rDelays) >= 4
    /\ SubSeq(rDelays, 1, 4) = <<1000, 2000, 3000, 3000>>

====
